---------------------------- MODULE Spec2Model ----------------------------
(***************************************************************************)
(* Model of the chapter-based PDF pipeline: the resumable driver           *)
(* (src/orchestrator/batch.py, src/db/progress.py), the rule-based and     *)
(* the assisted chunker (src/pdf/chunker.py, src/pdf/semantic_chunker.py)  *)
(* the chunk store (src/db/operations.py) and the exact-hash tier of the   *)
(* deduplication (src/dedup/hash_utils.py, src/dedup/dedup_service.py).    *)
(*                                                                         *)
(* A chapter text is a record [pad, blocks]: blocks is the sequence of     *)
(* its blank-line separated paragraphs, pad the amount of leading and      *)
(* trailing whitespace.  A paragraph is [s, kind]: s is the sequence of    *)
(* the lengths of its sentences (joined by one space), kind is "text",     *)
(* "heading" (a line matching the dotted-numeric section patterns) or      *)
(* "stub" (a text is_header_footer recognises when it stands alone).       *)
(***************************************************************************)
EXTENDS Integers, Sequences, FiniteSets, TLC

(* ---------------------------- bounds ----------------------------------- *)

MaxChapters ==
  2

MaxCrashes ==
  1

(* ------------------------ program constants ---------------------------- *)

MIN_PARAGRAPH_LENGTH ==
  150

MAX_PARAGRAPH_LENGTH ==
  1000

TARGET_SENTENCES ==
  5

BIG_CHUNK_MAX_SIZE ==
  2500

BIG_CHUNK_MIN_SIZE ==
  500

SMALL_CHUNK_MIN_SIZE ==
  100

\* batch.py:236, the driver's own "too short" threshold
DRIVER_MIN_TEXT ==
  100

NONE ==
  "None"

\* a paragraph_hash or simhash64 column that was never set (models.py:95-96)
NULL ==
  {}

(* --------------------------- text helpers ------------------------------ *)

Max(a, b) ==
  IF a >= b THEN a ELSE b

\* F applied to the value of v, v being evaluated once
With(v, F(_)) ==
  CHOOSE r \in {F(x) : x \in {v}} : TRUE

RECURSIVE Sum(_)
Sum(q) ==
  IF q = <<>> THEN 0 ELSE Head(q) + Sum(Tail(q))

\* len(" ".join(sentences))
JoinLen(q) ==
  IF q = <<>> THEN 0 ELSE Sum(q) + Len(q) - 1

\* length of one paragraph after strip() and whitespace normalisation
PLen(b) ==
  JoinLen(b.s)

RECURSIVE SumPLen(_)
SumPLen(bs) ==
  IF bs = <<>> THEN 0 ELSE PLen(Head(bs)) + SumPLen(Tail(bs))

\* len(text.strip()) of paragraphs joined by "\n\n"
StripLen(bs) ==
  IF bs = <<>> THEN 0 ELSE SumPLen(bs) + 2 * (Len(bs) - 1)

\* len(chapter_text)
TextLen(t) ==
  t.pad + StripLen(t.blocks)

EmptyText ==
  [pad |-> 0, blocks |-> <<>>]

(* ------------------- src/pdf/chunker.py: split_paragraphs -------------- *)

\* a chunk text: its length, the (paragraph, sentence) units it is made of,
\* and whether is_header_footer rejects it
MkChunk(len, units, hf) ==
  [len |-> len, units |-> units, hf |-> hf]

\* the units (p, from) .. (p, to)
RECURSIVE Units(_, _, _)
Units(p, from, to) ==
  IF from > to THEN <<>> ELSE << <<p, from>> >> \o Units(p, from + 1, to)

\* chunker.py:117-150; a chunk of at least MIN_PARAGRAPH_LENGTH characters is
\* rejected only when it is a lone stub paragraph (all digits, "Page <digits>")
is_header_footer(c) ==
  c.len < 20 \/ c.hf

\* chunker.py:69-86, the sentence loop over one over-long paragraph p
RECURSIVE SentenceSplit(_, _, _, _, _)
SentenceSplit(b, p, i, start, acc) ==
  IF i > Len(b.s)
  THEN IF start <= Len(b.s)
          /\ JoinLen(SubSeq(b.s, start, Len(b.s))) >= MIN_PARAGRAPH_LENGTH
       THEN Append(acc, MkChunk(JoinLen(SubSeq(b.s, start, Len(b.s))),
                                Units(p, start, Len(b.s)),
                                b.kind = "stub" /\ start = 1))
       ELSE acc
  ELSE LET l == JoinLen(SubSeq(b.s, start, i))
           n == i - start + 1
       IN IF n >= TARGET_SENTENCES \/ l >= MAX_PARAGRAPH_LENGTH
          THEN SentenceSplit(b, p, i + 1, i + 1,
                 IF l >= MIN_PARAGRAPH_LENGTH
                 THEN Append(acc, MkChunk(l, Units(p, start, i),
                                          b.kind = "stub" /\ Len(b.s) = 1))
                 ELSE acc)
          ELSE SentenceSplit(b, p, i + 1, start, acc)

\* chunker.py:52-86, the fragments of paragraph number p
ParagraphChunks(b, p) ==
  IF PLen(b) <= MAX_PARAGRAPH_LENGTH
  THEN << MkChunk(PLen(b), Units(p, 1, Len(b.s)), b.kind = "stub") >>
  ELSE SentenceSplit(b, p, 1, 1, <<>>)

RECURSIVE Fragments(_, _, _)
Fragments(bs, off, i) ==
  IF i > Len(bs) THEN <<>>
  ELSE ParagraphChunks(bs[i], off + i) \o Fragments(bs, off, i + 1)

\* chunker.py:88-105, the merge pass; buf = <<>> stands for the empty buffer
RECURSIVE MergeShort(_, _, _, _)
MergeShort(cs, i, buf, acc) ==
  IF i > Len(cs)
  THEN IF buf # <<>> /\ buf[1].len >= MIN_PARAGRAPH_LENGTH
       THEN Append(acc, buf[1]) ELSE acc
  ELSE IF buf = <<>>
       THEN MergeShort(cs, i + 1, <<cs[i]>>, acc)
       ELSE IF buf[1].len < MIN_PARAGRAPH_LENGTH
            THEN MergeShort(cs, i + 1,
                   << MkChunk(buf[1].len + 1 + cs[i].len,
                              buf[1].units \o cs[i].units, FALSE) >>, acc)
            ELSE MergeShort(cs, i + 1, <<cs[i]>>, Append(acc, buf[1]))

\* chunker.py:107-112
RECURSIVE FilterChunks(_)
FilterChunks(cs) ==
  IF cs = <<>> THEN <<>>
  ELSE IF ~is_header_footer(Head(cs)) /\ Head(cs).len >= MIN_PARAGRAPH_LENGTH
       THEN <<Head(cs)>> \o FilterChunks(Tail(cs))
       ELSE FilterChunks(Tail(cs))

\* chunker.py:20-114; bs are the paragraphs of the text, off the number of
\* paragraphs of the chapter that precede it
split_paragraphs(bs, off) ==
  IF StripLen(bs) < MIN_PARAGRAPH_LENGTH THEN <<>>
  ELSE With(Fragments(bs, off, 1),
            LAMBDA cs : With(MergeShort(cs, 1, <<>>, <<>>), FilterChunks))

(* ------------------- src/pdf/chunker.py: _detect_sections -------------- *)

\* chunker.py:278-305; a section is [title, from, to] over paragraph numbers,
\* title is the number of the heading paragraph or 0 for None
RECURSIVE SectionScan(_, _, _, _)
SectionScan(bs, i, sections, last_title) ==
  IF i > Len(bs) THEN sections
  ELSE IF bs[i].kind = "heading"
       THEN LET closed ==
                  IF last_title # 0 \/ sections # <<>>
                  THEN IF sections = <<>>
                       THEN << [title |-> 0, from |-> 1, to |-> i - 1] >>
                       ELSE [sections EXCEPT ![Len(sections)].to = i - 1]
                  ELSE sections
            IN SectionScan(bs, i + 1,
                 Append(closed, [title |-> i, from |-> i, to |-> Len(bs)]), i)
       ELSE SectionScan(bs, i + 1, sections, last_title)

\* chunker.py:256-311
detect_sections(bs) ==
  LET sections == SectionScan(bs, 1, <<>>, 0)
  IN IF sections = <<>>
     THEN << [title |-> 0, from |-> 1, to |-> Len(bs)] >>
     ELSE sections

(* ------------- src/pdf/chunker.py: split_chapter_into_paragraphs ------- *)

\* chunker.py:230-251, the paragraphs ps of one section become chunks; n
\* chunks of the chapter precede them
RECURSIVE SectionParagraphs(_, _, _, _, _)
SectionParagraphs(ps, title, chapter_id, base, n) ==
  IF ps = <<>> THEN <<>>
  ELSE << [text |-> [units |-> Head(ps).units, len |-> Head(ps).len,
                     case |-> "original", extra |-> 0],
           len |-> Head(ps).len,
           chapter_id |-> chapter_id,
           section_title |-> title,
           paragraph_index |-> base + n,
           chapter_paragraph_index |-> n] >>
       \o SectionParagraphs(Tail(ps), title, chapter_id, base, n + 1)

\* chunker.py:222-251, the loop over the sections; acc are the chunks so far
RECURSIVE SectionChunks(_, _, _, _, _, _)
SectionChunks(bs, sections, k, chapter_id, base, acc) ==
  IF k > Len(sections) THEN acc
  ELSE With(acc \o With(split_paragraphs(
                           SubSeq(bs, sections[k].from, sections[k].to),
                           sections[k].from - 1),
                         LAMBDA ps : SectionParagraphs(
                           ps, sections[k].title, chapter_id, base, Len(acc))),
            LAMBDA all :
              SectionChunks(bs, sections, k + 1, chapter_id, base, all))

\* chunker.py:191-253
split_chapter_into_paragraphs(t, chapter_id, base_paragraph_index) ==
  IF StripLen(t.blocks) < MIN_PARAGRAPH_LENGTH THEN <<>>
  ELSE With(detect_sections(t.blocks),
            LAMBDA sections : SectionChunks(t.blocks, sections, 1, chapter_id,
                                            base_paragraph_index, <<>>))

(* -------- src/pdf/semantic_chunker.py: the assisted strategy ------------ *)

\* len("\n\n".join(current)) for the paragraphs numbered in cur
WindowLen(bs, cur) ==
  StripLen([j \in 1..Len(cur) |-> bs[cur[j]]])

\* semantic_chunker.py:139-162; a window is the sequence of the numbers of
\* its paragraphs
RECURSIVE BigChunkScan(_, _, _, _, _, _)
BigChunkScan(bs, max_size, i, current, current_len, acc) ==
  IF i > Len(bs)
  THEN IF current # <<>> /\ WindowLen(bs, current) >= BIG_CHUNK_MIN_SIZE
       THEN Append(acc, current) ELSE acc
  ELSE IF current_len + PLen(bs[i]) > max_size /\ current # <<>>
       THEN BigChunkScan(bs, max_size, i + 1, <<i>>, PLen(bs[i]),
              IF WindowLen(bs, current) >= BIG_CHUNK_MIN_SIZE
              THEN Append(acc, current) ELSE acc)
       ELSE BigChunkScan(bs, max_size, i + 1, Append(current, i),
              current_len + PLen(bs[i]), acc)

\* the windows without the BIG_CHUNK_MIN_SIZE filter
RECURSIVE BigChunkScanUnfiltered(_, _, _, _, _, _)
BigChunkScanUnfiltered(bs, max_size, i, current, current_len, acc) ==
  IF i > Len(bs)
  THEN IF current # <<>> THEN Append(acc, current) ELSE acc
  ELSE IF current_len + PLen(bs[i]) > max_size /\ current # <<>>
       THEN BigChunkScanUnfiltered(bs, max_size, i + 1, <<i>>, PLen(bs[i]),
              Append(acc, current))
       ELSE BigChunkScanUnfiltered(bs, max_size, i + 1, Append(current, i),
              current_len + PLen(bs[i]), acc)

split_into_big_chunks_unfiltered(bs, max_size) ==
  BigChunkScanUnfiltered(bs, max_size, 1, <<>>, 0, <<>>)

\* semantic_chunker.py:121-164
split_into_big_chunks(bs, max_size) ==
  BigChunkScan(bs, max_size, 1, <<>>, 0, <<>>)

\* str.lower() on the section titles the oracle can return
Lower(title) ==
  IF title \in {"null", "NULL", "Null"} THEN "null" ELSE title

\* the oracle call without its except branch: a failed window contributes
\* nothing
SemanticParagraphsDropFailed(bs, windows, oracle, w) ==
  IF w \in DOMAIN oracle /\ oracle[w].ok
  THEN [j \in 1..Len(oracle[w].paragraphs) |->
          [len |-> oracle[w].paragraphs[j].len,
           concept |-> oracle[w].paragraphs[j].concept,
           section_title |-> oracle[w].paragraphs[j].section_title,
           window |-> w, fallback |-> FALSE]]
  ELSE <<>>

\* semantic_chunker.py:66-75; the oracle's answer for window w is
\* [ok, paragraphs]; a failed call falls back to the whole window
SemanticParagraphs(bs, windows, oracle, w) ==
  IF w \in DOMAIN oracle /\ oracle[w].ok
  THEN [j \in 1..Len(oracle[w].paragraphs) |->
          [len |-> oracle[w].paragraphs[j].len,
           concept |-> oracle[w].paragraphs[j].concept,
           section_title |-> oracle[w].paragraphs[j].section_title,
           window |-> w, fallback |-> FALSE]]
  ELSE << [len |-> WindowLen(bs, windows[w]), concept |-> "",
           section_title |-> NONE, window |-> w, fallback |-> TRUE] >>

RECURSIVE AllSemanticParagraphs(_, _, _, _)
AllSemanticParagraphs(bs, windows, oracle, w) ==
  IF w > Len(windows) THEN <<>>
  ELSE SemanticParagraphs(bs, windows, oracle, w)
       \o AllSemanticParagraphs(bs, windows, oracle, w + 1)

\* semantic_chunker.py:77-116
RECURSIVE EmitSemantic(_, _, _, _, _, _)
EmitSemantic(ps, i, chapter_id, base, current_section, acc) ==
  IF i > Len(ps) THEN acc
  ELSE IF ps[i].len < SMALL_CHUNK_MIN_SIZE
       THEN EmitSemantic(ps, i + 1, chapter_id, base, current_section, acc)
       ELSE LET title == ps[i].section_title
                section == IF title \notin {NONE, ""} /\ Lower(title) # "null"
                           THEN title ELSE current_section
            IN EmitSemantic(ps, i + 1, chapter_id, base, section,
                 Append(acc, [len |-> ps[i].len, concept |-> ps[i].concept,
                              chapter_id |-> chapter_id,
                              section_title |-> section,
                              window |-> ps[i].window,
                              fallback |-> ps[i].fallback,
                              paragraph_index |-> base + Len(acc),
                              chapter_paragraph_index |-> Len(acc)]))

\* semantic_chunker.py:32-118
hybrid_chunk_and_extract(t, chapter_id, oracle, base_paragraph_index) ==
  IF StripLen(t.blocks) < SMALL_CHUNK_MIN_SIZE THEN <<>>
  ELSE LET big_chunks == split_into_big_chunks(t.blocks, BIG_CHUNK_MAX_SIZE)
       IN EmitSemantic(AllSemanticParagraphs(t.blocks, big_chunks, oracle, 1),
                       1, chapter_id, base_paragraph_index, NONE, <<>>)

(* ----------------------- src/db/progress.py ---------------------------- *)

\* progress.py:13-45; one record per chapter, in chapter_number order
initialize_chapter_progress(n) ==
  [c \in 1..n |-> [status |-> "pending", attempt_count |-> 0,
                   error_message |-> NONE]]

RECURSIVE PendingFrom(_, _)
PendingFrom(prog, c) ==
  IF c > Len(prog) THEN <<>>
  ELSE IF prog[c].status = "pending"
       THEN <<c>> \o PendingFrom(prog, c + 1)
       ELSE PendingFrom(prog, c + 1)

\* the query without its status filter
get_pending_chapters_unfiltered(prog) ==
  [c \in 1..Len(prog) |-> c]

\* progress.py:48-74; the pending chapters ordered by chapter_number
get_pending_chapters(prog) ==
  PendingFrom(prog, 1)

\* the update without "progress.status = 'processing'"
mark_chapter_processing_count_only(prog, c) ==
  IF c \in DOMAIN prog
  THEN [prog EXCEPT ![c].attempt_count = @ + 1]
  ELSE prog

\* progress.py:77-95
mark_chapter_processing(prog, c) ==
  IF c \in DOMAIN prog
  THEN [prog EXCEPT ![c].status = "processing",
                    ![c].attempt_count = @ + 1]
  ELSE prog

\* progress.py:98-115
mark_chapter_completed(prog, c) ==
  IF c \in DOMAIN prog
  THEN [prog EXCEPT ![c].status = "completed"]
  ELSE prog

\* the update without "progress.error_message = error_message"
mark_chapter_failed_no_message(prog, c, error_message) ==
  IF c \in DOMAIN prog
  THEN [prog EXCEPT ![c].status = "failed"]
  ELSE prog

\* progress.py:118-141
mark_chapter_failed(prog, c, error_message) ==
  IF c \in DOMAIN prog
  THEN [prog EXCEPT ![c].status = "failed",
                    ![c].error_message = error_message]
  ELSE prog

\* the reset that finds no stuck chapter
reset_stuck_chapters_none(prog) ==
  prog

\* the reset with status.in_(['processing', 'failed']) as its filter
reset_stuck_chapters_failed_too(prog) ==
  [c \in DOMAIN prog |->
     IF prog[c].status \in {"processing", "failed"}
     THEN [prog[c] EXCEPT !.status = "pending"]
     ELSE prog[c]]

\* progress.py:177-197
reset_stuck_chapters(prog) ==
  [c \in DOMAIN prog |->
     IF prog[c].status = "processing"
     THEN [prog[c] EXCEPT !.status = "pending"]
     ELSE prog[c]]

(* ----------------------- src/db/operations.py -------------------------- *)

\* operations.py:264-290; the row is inserted and committed on its own,
\* without a paragraph_hash and without a simhash64
save_hierarchical_chunk(rows, chunk) ==
  Append(rows, [book_id |-> chunk.book_id,
                chapter_id |-> chunk.chapter_id,
                paragraph_index |-> chunk.paragraph_index,
                chapter_paragraph_index |-> chunk.chapter_paragraph_index,
                body_text |-> chunk.text,
                paragraph_hash |-> NULL,
                simhash64 |-> NULL])

(* --------- src/dedup/hash_utils.py, src/dedup/dedup_service.py --------- *)

\* hash_utils.py:8-31 without the case folding of line 22
normalize_for_hash_cased(text) ==
  [units |-> text.units, len |-> text.len - text.extra,
   layout |-> text.case]

\* hash_utils.py:8-31; lower case, runs of whitespace collapsed, stripped.  A
\* text is [units, len, case, extra]: its sentences, its length, the case it
\* is written in and the number of whitespace characters it has beyond single
\* separators; the normalized text has neither case nor extra whitespace
normalize_for_hash(text) ==
  [units |-> text.units, len |-> text.len - text.extra,
   layout |-> "normalized"]

\* hash_utils.py:34-45; SHA-256 is taken to be free of collisions: a digest
\* is the singleton of the normalized text it was taken of
compute_paragraph_hash(text) ==
  {normalize_for_hash(text)}

\* hash_utils.py:81 and 90, the width of a fingerprint
HASH_BITS ==
  64

\* hash_utils.py:47, the default of ngram_size
NGRAM_SIZE ==
  3

\* A Python int is [low, ext]: low is the set of the positions 0..63 of the 1
\* bits of its two's-complement representation, ext (0 or 1) the bit that
\* every position from 64 upwards holds (1 for a negative value).
BitPositions ==
  0..(HASH_BITS - 1)

\* hash_utils.py:94-97, the unsigned fingerprint as a signed 64-bit integer
Signed64(bits) ==
  [low |-> bits, ext |-> IF (HASH_BITS - 1) \in bits THEN 1 ELSE 0]

\* the Python operator ^ on two ints
PyXor(a, b) ==
  [low |-> (a.low \ b.low) \cup (b.low \ a.low), ext |-> (a.ext + b.ext) % 2]

\* x & 0xFFFFFFFFFFFFFFFF
PyAnd64(x) ==
  [low |-> x.low, ext |-> 0]

\* bin(x).count('1'): the 1 digits of the magnitude of x; for a negative x
\* the magnitude is 2^64 - low (2^64 itself when low is 0)
BinCountOnes(x) ==
  IF x.ext = 0 THEN Cardinality(x.low)
  ELSE IF x.low = {} THEN 1
  ELSE LET t == CHOOSE i \in x.low : \A j \in x.low : i <= j
       IN Cardinality({i \in BitPositions : i > t /\ i \notin x.low}) + 1

\* hash_utils.py:112-115 without the mask of line 114
hamming_distance_unmasked(hash1, hash2) ==
  BinCountOnes(PyXor(hash1, hash2))

\* hash_utils.py:102-115
hamming_distance(hash1, hash2) ==
  BinCountOnes(PyAnd64(PyXor(hash1, hash2)))

\* hash_utils.py:65-68, the 3-grams of a normalized text: a text has the
\* grams of its sentences, one class of grams per sentence, and none when it
\* is shorter than ngram_size
Ngrams(normalized) ==
  IF normalized.len < NGRAM_SIZE THEN <<>> ELSE normalized.units

\* hash_utils.py:78, the first 64 bits of the MD5 digest of a gram.  MD5 is a
\* fixed function; the grams of sentence i of paragraph p have the byte
\* (p - 1) mod 7 set and the lowest i mod 9 bits of the top byte
md5_64(gram) ==
  {b \in BitPositions : b \div 8 = (gram[1] - 1) % 7}
    \cup {b \in BitPositions : b \div 8 = 7 /\ b % 8 < gram[2] % 9}

\* hash_utils.py:47-99
compute_simhash64(text) ==
  With(Ngrams(normalize_for_hash(text)), LAMBDA ngrams :
    With([i \in DOMAIN ngrams |-> md5_64(ngrams[i])], LAMBDA h :
      IF ngrams = <<>> THEN Signed64({})
      ELSE Signed64({b \in BitPositions :
             Cardinality({i \in DOMAIN ngrams : b \in h[i]})
               > Cardinality({i \in DOMAIN ngrams : b \notin h[i]})})))

\* the value of a column that is not NULL
Value(column) ==
  CHOOSE v \in column : TRUE

\* an Optional[int] argument: <<>> is None, <<n>> is the int n
Truthy(book_id) ==
  book_id # <<>> /\ book_id[1] # 0

\* dedup_service.py:125-126, 161-162, 194-195, 237-238: the rows a lookup
\* searches; the filter on the book is added under "not cross_book and
\* book_id"
InLookupScope(row, book_id, cross_book) ==
  (~cross_book /\ Truthy(book_id)) => row.book_id = book_id[1]

RECURSIVE FirstWithHash(_, _, _, _, _)
FirstWithHash(rows, paragraph_hash, book_id, cross_book, i) ==
  IF i > Len(rows) THEN 0
  ELSE IF /\ rows[i].paragraph_hash = paragraph_hash
          /\ InLookupScope(rows[i], book_id, cross_book)
       THEN i
       ELSE FirstWithHash(rows, paragraph_hash, book_id, cross_book, i + 1)

\* the lookup restricted to another book: it never finds a row
find_exact_duplicate_other_book(rows, paragraph_hash, book_id, cross_book) ==
  0

\* dedup_service.py:105-129; the id of the first row that carries the hash,
\* or 0 for None
find_exact_duplicate(rows, paragraph_hash, book_id, cross_book) ==
  FirstWithHash(rows, paragraph_hash, book_id, cross_book, 1)

\* dedup_service.py:34, the default of fuzzy_threshold
FUZZY_THRESHOLD ==
  6

\* dedup_service.py:136, the default of limit
FUZZY_LIMIT ==
  10

\* list.sort(key=lambda x: x[1]) of Python, a stable sort: pair x is put
\* behind the pairs of the sorted list that are not farther than it
RECURSIVE InsertByDistance(_, _)
InsertByDistance(sorted, x) ==
  IF sorted = <<>> THEN << x >>
  ELSE IF Head(sorted)[2] <= x[2]
       THEN << Head(sorted) >> \o InsertByDistance(Tail(sorted), x)
       ELSE << x >> \o sorted

RECURSIVE SortByDistance(_)
SortByDistance(pairs) ==
  IF pairs = <<>> THEN <<>>
  ELSE InsertByDistance(SortByDistance(SubSeq(pairs, 1, Len(pairs) - 1)),
                        pairs[Len(pairs)])

\* results[:limit]
Truncate(seq, limit) ==
  SubSeq(seq, 1, IF Len(seq) < limit THEN Len(seq) ELSE limit)

\* the (id, distance) pairs of the rows with a fingerprint, within the scope
\* of the lookup and within the threshold, in the order of the ids given
RECURSIVE ScanFuzzy(_, _, _, _, _)
ScanFuzzy(rows, ids, simhash64, book_id, cross_book) ==
  IF ids = <<>> THEN <<>>
  ELSE LET i == Head(ids)
           rest == ScanFuzzy(rows, Tail(ids), simhash64, book_id, cross_book)
       IN IF /\ rows[i].simhash64 # NULL
             /\ InLookupScope(rows[i], book_id, cross_book)
          THEN With(hamming_distance(simhash64, Value(rows[i].simhash64)),
                    LAMBDA dist :
                      IF dist <= FUZZY_THRESHOLD THEN << <<i, dist>> >> \o rest
                      ELSE rest)
          ELSE rest

\* the ids 1..n in ascending and in descending order
Ascending(n) ==
  [i \in 1..n |-> i]

Descending(n) ==
  [i \in 1..n |-> n + 1 - i]

\* dedup_service.py:181-204; query.all() yields the rows by ascending id
find_fuzzy_duplicates_fallback(rows, simhash64, book_id, cross_book, limit) ==
  Truncate(SortByDistance(
    ScanFuzzy(rows, Ascending(Len(rows)), simhash64, book_id, cross_book)),
    limit)

\* dedup_service.py:131-179.  session is the storage backend of the call:
\* bit_count tells whether the distance query of lines 155-172 works and
\* ties the order ("asc" or "desc" by id) in which ORDER BY hamming_dist
\* leaves rows of equal distance, which SQL does not fix.  bit_count over
\* the 64 bits of simhash64 # target is the distance hamming_distance
\* computes.  The result tells by which route it was obtained.
find_fuzzy_duplicates(rows, simhash64, book_id, cross_book, limit, session) ==
  IF session.bit_count
  THEN [route |-> << "fuzzy" >>,
        matches |->
          Truncate(SortByDistance(
            ScanFuzzy(rows,
                      IF session.ties = "asc" THEN Ascending(Len(rows))
                      ELSE Descending(Len(rows)),
                      simhash64, book_id, cross_book)), limit)]
  ELSE [route |-> << "fuzzy", "fallback" >>,
        matches |-> find_fuzzy_duplicates_fallback(rows, simhash64, book_id,
                                                   cross_book, limit)]

\* dedup_service.py:206-257.  compute_embedding (line 227) is called outside
\* the try block: a failure of the oracle leaves the method as an exception.
\* Inside the try block, line 250 calls text(sql) where text is the str
\* parameter of the method, not sqlalchemy.text: the TypeError is swallowed
\* by lines 254-255 and the method returns None (<<>>).
find_semantic_duplicate(text, book_id, cross_book, session) ==
  IF session.oracle = "fails"
  THEN [raised |-> TRUE, match |-> <<>>]
  ELSE [raised |-> FALSE, match |-> <<>>]

\* DeduplicationResult, dedup_service.py:12-19.  A similarity is given in
\* 64ths: 1.0 is 64 and 1 - d/64 is 64 - d.
DeduplicationResult(is_duplicate, duplicate_type, existing_chunk_id, similarity_score, distance) ==
  [is_duplicate |-> is_duplicate, duplicate_type |-> duplicate_type,
   existing_chunk_id |-> existing_chunk_id,
   similarity_score |-> similarity_score, hamming_distance |-> distance]

\* dedup_service.py:51-103 with the test of line 94 left out: the semantic
\* lookup is made whether it is enabled or not
check_duplicate_always_semantic(rows, text, book_id, cross_book, session) ==
  LET semantic == find_semantic_duplicate(text, book_id, cross_book, session)
  IN [raised |-> semantic.raised,
      lookups |-> << "exact", "fuzzy", "semantic" >>,
      verdict |-> DeduplicationResult(FALSE, NONE, 0, NONE, NONE)]

\* dedup_service.py:51-103.  The result is the verdict, whether the call
\* raised instead of returning it, and the lookups made in their order.
check_duplicate(rows, text, book_id, cross_book, session) ==
  With(compute_paragraph_hash(text), LAMBDA paragraph_hash :
  With(compute_simhash64(text), LAMBDA simhash64 :
  With(find_exact_duplicate(rows, paragraph_hash, book_id, cross_book),
       LAMBDA exact_match :
  IF exact_match # 0
  THEN [raised |-> FALSE, lookups |-> << "exact" >>,
        verdict |-> DeduplicationResult(TRUE, "exact", exact_match,
                                        HASH_BITS, NONE)]
  ELSE
  With(find_fuzzy_duplicates(rows, simhash64, book_id, cross_book,
                             FUZZY_LIMIT, session), LAMBDA fuzzy :
  IF fuzzy.matches # <<>>
  THEN [raised |-> FALSE, lookups |-> << "exact" >> \o fuzzy.route,
        verdict |-> DeduplicationResult(TRUE, "fuzzy", fuzzy.matches[1][1],
                                        HASH_BITS - fuzzy.matches[1][2],
                                        fuzzy.matches[1][2])]
  ELSE IF session.enable_semantic
  THEN With(find_semantic_duplicate(text, book_id, cross_book, session),
            LAMBDA semantic :
         IF semantic.raised
         THEN [raised |-> TRUE,
               lookups |-> << "exact" >> \o fuzzy.route \o << "semantic" >>,
               verdict |-> DeduplicationResult(FALSE, NONE, 0, NONE, NONE)]
         ELSE IF semantic.match # <<>>
         THEN [raised |-> FALSE,
               lookups |-> << "exact" >> \o fuzzy.route \o << "semantic" >>,
               verdict |-> DeduplicationResult(TRUE, "semantic",
                                               semantic.match[1],
                                               semantic.match[2], NONE)]
         ELSE [raised |-> FALSE,
               lookups |-> << "exact" >> \o fuzzy.route \o << "semantic" >>,
               verdict |-> DeduplicationResult(FALSE, NONE, 0, NONE, NONE)])
  ELSE [raised |-> FALSE, lookups |-> << "exact" >> \o fuzzy.route,
        verdict |-> DeduplicationResult(FALSE, NONE, 0, NONE, NONE)]))))

\* dedup_service.py:259-277; check_duplicate is called without cross_book,
\* which then has its default True
compute_and_check(rows, text, book_id, session) ==
  [paragraph_hash |-> compute_paragraph_hash(text),
   simhash64 |-> compute_simhash64(text),
   result |-> check_duplicate(rows, text, book_id, TRUE, session)]

\* scripts/backfill_hashes.py:26-110 without --force and without --book-id:
\* every row that lacks one of the hashes gets both, batch by batch
backfill_hashes(rows) ==
  [i \in 1..Len(rows) |->
     IF rows[i].paragraph_hash = NULL \/ rows[i].simhash64 = NULL
     THEN [rows[i] EXCEPT
             !.paragraph_hash = compute_paragraph_hash(rows[i].body_text),
             !.simhash64 = {compute_simhash64(rows[i].body_text)}]
     ELSE rows[i]]

(* ---------------- src/workflow/nodes.py: save_to_database -------------- *)

\* the persistence node the driver calls at batch.py:277.  The exact-hash
\* tier gates persistence; a chunk that passes is stored durably on its own
\* and its content hash is attached to the stored row.
save_to_database(rows, chunk) ==
  LET paragraph_hash == compute_paragraph_hash(chunk.text)
  IN IF find_exact_duplicate(rows, paragraph_hash, <<>>, TRUE) # 0
     THEN rows
     ELSE LET saved == save_hierarchical_chunk(rows, chunk)
          IN [saved EXCEPT ![Len(saved)].paragraph_hash = paragraph_hash]

(* ------------------- the documents the driver is run on ---------------- *)

P(s) ==
  [s |-> s, kind |-> "text"]

Heading(n) ==
  [s |-> <<n>>, kind |-> "heading"]

\* an 80 character chapter, a 120 character chapter, a chapter of two chunks
\* and a chapter with a preamble followed by a titled section
TextCatalogue ==
  { [pad |-> 0, blocks |-> << P(<<80>>) >>],
    [pad |-> 4, blocks |-> << P(<<120>>) >>],
    [pad |-> 0, blocks |-> << P(<<200>>), P(<<300>>) >>],
    [pad |-> 2, blocks |-> << P(<<160>>), Heading(12), P(<<90, 120>>) >>] }

\* str(e) of the exceptions a chapter can raise: the extraction oracle times
\* out, the storage backend refuses the insert
Messages ==
  {"timeout", "db error"}

ExceptionMessage(at_save) ==
  IF at_save THEN "db error" ELSE "timeout"

\* the pdf_path of a resume run: scripts/process_pdfs.py passes "" (line 112),
\* the orchestrator's own command line passes --pdf (batch.py:318-323), the
\* document itself or a path where no file is
ResumePaths ==
  {"", "book.pdf", "missing.pdf"}

\* no library function has been called on its own
NoCall ==
  [op |-> "none"]

(* ------------------------------ state ---------------------------------- *)

VARIABLES
  emptyPathOpens,   \* whether fitz.open("") yields an empty document or raises
  bookExists,       \* the books row of the document
  chapters,         \* chapters rows: the text of chapter_number 1..n
  progress,         \* processing_progress rows, one per chapter
  store,            \* paragraph_chunks rows
  handed_max,       \* highest paragraph_index passed to save_to_database
  produced,         \* per chapter, len(chunks) of its last processing or -1
  pc,               \* position of the running process_pdf call, or "idle"
  docEmpty,         \* extract_all_pages returned no page in this run
  pending,          \* pending_chapters not yet finished in this run
  global_para_idx,  \* batch.py:225
  chunks,           \* chunks of the chapter being processed
  k,                \* position of the chunk loop (batch.py:253)
  crashes,          \* number of process deaths so far
  event,            \* the last step taken
  raised,           \* message of the exception the last step raised
  call              \* the last call of a library function and its result

vars ==
  << emptyPathOpens, bookExists, chapters, progress, store, handed_max,
     produced, pc, docEmpty, pending, global_para_idx, chunks, k, crashes, event,
     raised, call >>

db ==
  << bookExists, chapters, progress, store, handed_max, produced >>

run ==
  << pc, docEmpty, pending, global_para_idx, chunks, k >>

Init ==
  /\ emptyPathOpens \in BOOLEAN
  /\ bookExists = FALSE
  /\ chapters = <<>>
  /\ progress = <<>>
  /\ store = <<>>
  /\ handed_max = -1
  /\ produced = <<>>
  /\ pc = "idle"
  /\ docEmpty = FALSE
  /\ pending = <<>>
  /\ global_para_idx = 0
  /\ chunks = <<>>
  /\ k = 0
  /\ crashes = 0
  /\ event = "init"
  /\ raised = NONE
  /\ call = NoCall

\* the process_pdf call is over (returned or raised): its locals are gone
RunEnds ==
  /\ pc' = "idle"
  /\ docEmpty' = FALSE
  /\ pending' = <<>>
  /\ global_para_idx' = 0
  /\ chunks' = <<>>
  /\ k' = 0

\* batch.py:227, the for loop moves to the next pending chapter or ends
LoopNext(rest, idx) ==
  IF rest = <<>>
  THEN RunEnds
  ELSE /\ pc' = "loop"
       /\ pending' = rest
       /\ global_para_idx' = idx
       /\ chunks' = <<>>
       /\ k' = 0
       /\ UNCHANGED docEmpty

\* batch.py:188-205 over the pages extracted in this run
get_chapter_text(c) ==
  IF docEmpty THEN EmptyText ELSE chapters[c]

(* ----------------------- batch.py: a fresh run ------------------------- *)

\* batch.py:61-62 and 134: the document is missing, or it cannot be read by
\* get_pdf_metadata
FreshInputError ==
  /\ pc = "idle"
  /\ event' = "fresh_input_error"
  /\ raised' = "FileNotFoundError"
  /\ UNCHANGED << call, emptyPathOpens, db, run, crashes >>

\* batch.py:139-153, create_book commits the books row
FreshCreateBook ==
  /\ pc = "idle"
  /\ ~bookExists
  /\ bookExists' = TRUE
  /\ pc' = "book"
  /\ event' = "fresh_book"
  /\ raised' = NONE
  /\ UNCHANGED << call, emptyPathOpens, chapters, progress, store, handed_max,
                  produced, docEmpty, pending, global_para_idx, chunks, k, crashes >>

\* batch.py:140-144, the title is already in the books table
FreshRejected ==
  /\ pc = "idle"
  /\ bookExists
  /\ event' = "fresh_rejected"
  /\ raised' = "ValueError"
  /\ UNCHANGED << call, emptyPathOpens, db, run, crashes >>

\* batch.py:155-167, operations.py:177-212
FreshCreateChapters ==
  /\ pc = "book"
  /\ \E n \in 1..MaxChapters :
       \E texts \in [1..n -> TextCatalogue] :
          /\ chapters' = texts
          /\ produced' = [c \in 1..n |-> -1]
  /\ pc' = "chapters"
  /\ event' = "fresh_chapters"
  /\ raised' = NONE
  /\ UNCHANGED << call, emptyPathOpens, bookExists, progress, store, handed_max,
                  docEmpty, pending, global_para_idx, chunks, k, crashes >>

\* batch.py:170 and 73-90: the progress rows are created, the pending
\* chapters are read and the pages are extracted
FreshInitProgress ==
  /\ pc = "chapters"
  /\ progress' = initialize_chapter_progress(Len(chapters))
  /\ pending' = get_pending_chapters(progress')
  /\ pc' = "loop"
  /\ docEmpty' = FALSE
  /\ global_para_idx' = 0
  /\ event' = "fresh_start"
  /\ raised' = NONE
  /\ UNCHANGED << call, emptyPathOpens, bookExists, chapters, store, handed_max,
                  produced, chunks, k, crashes >>

(* ----------------------- batch.py: a resume run ------------------------ *)

\* batch.py:115-121, no such book or no chapter rows
ResumeRejected ==
  /\ pc = "idle"
  /\ ~bookExists \/ chapters = <<>>
  /\ event' = "resume_rejected"
  /\ raised' = "ValueError"
  /\ UNCHANGED << call, emptyPathOpens, db, run, crashes >>

\* batch.py:68-69, 111-128 and 73-90
StartResume(path) ==
  /\ pc = "idle"
  /\ bookExists /\ chapters # <<>>
  /\ progress' = reset_stuck_chapters(progress)
  /\ LET pending_chapters == get_pending_chapters(progress')
     IN IF pending_chapters = <<>>
        THEN /\ event' = "resume_done"
             /\ raised' = NONE
             /\ UNCHANGED run
        ELSE IF path = "missing.pdf" \/ (path = "" /\ ~emptyPathOpens)
             THEN /\ event' = "resume_aborted"
                  /\ raised' = "FileNotFoundError"
                  /\ UNCHANGED run
             ELSE /\ event' = "resume_start"
                  /\ raised' = NONE
                  /\ pc' = "loop"
                  /\ docEmpty' = (path = "")
                  /\ pending' = pending_chapters
                  /\ global_para_idx' = 0
                  /\ UNCHANGED << chunks, k >>
  /\ UNCHANGED << call, emptyPathOpens, bookExists, chapters, store, handed_max,
                  produced, crashes >>

(* ------------------- batch.py: _process_chapters ----------------------- *)

\* the id of the one book the driver is run on
BOOK_ID ==
  1

\* batch.py:255-262, the chunk as handed to extraction and persistence
ParagraphChunk(book_id, chunk) ==
  [book_id |-> book_id,
   chapter_id |-> chunk.chapter_id,
   paragraph_index |-> chunk.paragraph_index,
   chapter_paragraph_index |-> chunk.chapter_paragraph_index,
   text |-> chunk.text]

\* batch.py:229-250: the next chapter is marked processing and chunked
PickUp ==
  /\ pc = "loop"
  /\ pending # <<>>
  /\ LET c == Head(pending)
         text == get_chapter_text(c)
         cs == IF StripLen(text.blocks) < DRIVER_MIN_TEXT THEN <<>>
               ELSE split_chapter_into_paragraphs(text, c, global_para_idx)
     IN /\ progress' = mark_chapter_processing(progress, c)
        /\ chunks' = cs
        /\ produced' = [produced EXCEPT ![c] = Len(cs)]
  /\ k' = 1
  /\ pc' = "chunks"
  /\ event' = "pick"
  /\ raised' = NONE
  /\ UNCHANGED << call, emptyPathOpens, bookExists, chapters, store, handed_max,
                  docEmpty, pending, global_para_idx, crashes >>

\* batch.py:271-274, extract_core_idea reports an error: the chunk is skipped
ChunkExtractError ==
  /\ pc = "chunks"
  /\ k <= Len(chunks)
  /\ k' = k + 1
  /\ event' = "chunk_extract_error"
  /\ raised' = NONE
  /\ UNCHANGED << call, emptyPathOpens, db, pc, docEmpty, pending, global_para_idx,
                  chunks, crashes >>

\* batch.py:277-280, save_to_database stores the chunk, finds it stored
\* already, or reports an error
ChunkSave(ok) ==
  /\ pc = "chunks"
  /\ k <= Len(chunks)
  /\ handed_max' = Max(handed_max, chunks[k].paragraph_index)
  /\ store' = IF ok
              THEN save_to_database(store, ParagraphChunk(BOOK_ID, chunks[k]))
              ELSE store
  /\ k' = k + 1
  /\ event' = IF ~ok THEN "chunk_save_error"
              ELSE IF store' = store THEN "chunk_duplicate" ELSE "chunk_stored"
  /\ raised' = NONE
  /\ UNCHANGED << call, emptyPathOpens, bookExists, chapters, progress, produced,
                  pc, docEmpty, pending, global_para_idx, chunks, crashes >>

\* batch.py:286-289, an exception of extract_core_idea (at_save = FALSE) or
\* of save_to_database (at_save = TRUE) ends the chapter
ChunkRaise(at_save, msg) ==
  /\ pc = "chunks"
  /\ k <= Len(chunks)
  /\ msg = ExceptionMessage(at_save)
  /\ handed_max' = IF at_save
                   THEN Max(handed_max, chunks[k].paragraph_index)
                   ELSE handed_max
  /\ progress' = mark_chapter_failed(progress, Head(pending), msg)
  /\ LoopNext(Tail(pending), global_para_idx)
  /\ event' = "chunk_raise"
  /\ raised' = msg
  /\ UNCHANGED << call, emptyPathOpens, bookExists, chapters, store, produced,
                  crashes >>

\* batch.py:236-240 and 282-284, the chapter is completed
CompleteChapter ==
  /\ pc = "chunks"
  /\ k > Len(chunks)
  /\ progress' = mark_chapter_completed(progress, Head(pending))
  /\ LoopNext(Tail(pending), global_para_idx + Len(chunks))
  /\ event' = "complete"
  /\ raised' = NONE
  /\ UNCHANGED << call, emptyPathOpens, bookExists, chapters, store, handed_max,
                  produced, crashes >>

\* the process dies (kill, power loss, KeyboardInterrupt): the committed rows
\* stay, the locals are lost
Crash ==
  /\ pc # "idle"
  /\ crashes < MaxCrashes
  /\ crashes' = crashes + 1
  /\ RunEnds
  /\ event' = "crash"
  /\ raised' = NONE
  /\ UNCHANGED << call, emptyPathOpens, db >>

RunStep ==
  \/ FreshInputError
  \/ FreshCreateBook
  \/ FreshRejected
  \/ FreshCreateChapters
  \/ FreshInitProgress
  \/ ResumeRejected
  \/ PickUp
  \/ ChunkExtractError
  \/ \E ok \in BOOLEAN : ChunkSave(ok)
  \/ \E at_save \in BOOLEAN : \E msg \in Messages : ChunkRaise(at_save, msg)
  \/ CompleteChapter

Next ==
  \/ RunStep
  \/ \E path \in ResumePaths : StartResume(path)
  \/ Crash

Spec ==
  Init /\ [][Next]_vars

(* --------- resume runs started by scripts/process_pdfs.py only --------- *)

\* process_pdfs.py:107-116, a resume run always gets pdf_path = ""
NextMain ==
  \/ RunStep
  \/ StartResume("")
  \/ Crash

SpecMain ==
  Init /\ [][NextMain]_vars

\* a started call runs on, and the operator starts resume runs again and
\* again; a crash is never forced
FairSpecMain ==
  SpecMain /\ WF_vars(RunStep) /\ WF_vars(StartResume(""))

(* ----------------------------- properties ------------------------------ *)

Status(c) ==
  progress[c].status

StoredOf(c) ==
  {i \in DOMAIN store : store[i].chapter_id = c}

\* the step is the start of a resume run (batch.py:68-69)
ResumeStarts ==
  pc = "idle" /\ event' \in {"resume_done", "resume_aborted", "resume_start"}

\* the step passes chunks[k] to save_to_database (batch.py:277)
HandsOver ==
  \/ event' \in {"chunk_stored", "chunk_duplicate", "chunk_save_error"}
  \/ event' = "chunk_raise" /\ raised' = ExceptionMessage(TRUE)

\* C1: a chapter's status changes only along pending->processing,
\* processing->completed, processing->failed and, at the start of a resume
\* run only, processing->pending; a progress record is created pending with
\* attempt_count 0.
C1_StatusTransitions ==
  [][ /\ DOMAIN progress \subseteq DOMAIN progress'
      /\ \A c \in DOMAIN progress :
           \/ progress'[c].status = Status(c)
           \/ Status(c) = "pending" /\ progress'[c].status = "processing"
           \/ Status(c) = "processing" /\ progress'[c].status = "completed"
           \/ Status(c) = "processing" /\ progress'[c].status = "failed"
           \/ /\ Status(c) = "processing" /\ progress'[c].status = "pending"
              /\ ResumeStarts
      /\ \A c \in DOMAIN progress' \ DOMAIN progress :
           /\ progress'[c].status = "pending"
           /\ progress'[c].attempt_count = 0 ]_vars

\* a chapter that crashed, was reset and completed at its second attempt,
\* next to a chapter that failed
C1_Witness ==
  \E c, d \in DOMAIN progress :
     /\ Status(c) = "completed" /\ progress[c].attempt_count = 2
     /\ Status(d) = "failed"

\* C2: the global paragraph index of the chunks handed to persistence is
\* strictly increasing over all the runs for one book: every chunk handed
\* over has an index above every index handed over before.
C2_GlobalIndexIncreasing ==
  [][ HandsOver => chunks[k].paragraph_index > handed_max ]_vars

\* C3: the start of a resume run resets every processing chapter to pending
\* and leaves pending, completed and failed chapters unchanged; no chapter is
\* picked up while another one is still marked processing.
C3_ResetStuck ==
  [][ /\ ResumeStarts /\ bookExists /\ chapters # <<>> =>
           /\ DOMAIN progress' = DOMAIN progress
           /\ \A c \in DOMAIN progress :
                IF Status(c) = "processing"
                THEN /\ progress'[c].status = "pending"
                     /\ progress'[c].attempt_count = progress[c].attempt_count
                ELSE progress'[c] = progress[c]
      /\ event' = "pick" =>
           \A c \in DOMAIN progress : Status(c) # "processing" ]_vars

\* a resume run that found a stuck chapter (reset, attempted before) beside
\* a finished one
C3_Witness ==
  /\ event = "resume_start"
  /\ \E c, d \in DOMAIN progress :
        /\ Status(c) = "pending" /\ progress[c].attempt_count = 1
        /\ Status(d) \in {"completed", "failed"}

\* C4: every chapter with a progress record that is pending or processing
\* eventually reaches completed or failed, over the initial run and the
\* resume runs started through scripts/process_pdfs.py.
C4_AtLeastOnce ==
  \A c \in 1..MaxChapters :
     (c \in DOMAIN progress /\ Status(c) \in {"pending", "processing"})
       ~> (c \in DOMAIN progress /\ Status(c) \in {"completed", "failed"})

AllCompleted ==
  /\ pc = "idle"
  /\ progress # <<>>
  /\ \A c \in DOMAIN progress : Status(c) = "completed"

\* C5: once every chapter is completed, a further run of the driver stores
\* and produces no chunk and changes no chapter's progress.
C5_ResumeIdempotent ==
  [][ AllCompleted =>
        /\ progress' = progress
        /\ store' = store
        /\ produced' = produced
        /\ handed_max' = handed_max
        /\ pc' = "idle" ]_vars

\* a resume run has just returned on a fully completed book with chunks
C5_Witness ==
  AllCompleted /\ event = "resume_done" /\ store # <<>>

\* C6: a step that raises inside a chapter marks that chapter failed with
\* the exception's message, leaves the other chapters' records alone, and the
\* run goes on with all the remaining pending chapters in document order; the
\* run ends there only if no chapter is pending.
C6_FailureContained ==
  [][ event' = "chunk_raise" =>
        /\ raised' \in Messages
        /\ progress'[Head(pending)].status = "failed"
        /\ progress'[Head(pending)].error_message = raised'
        /\ \A c \in DOMAIN progress \ {Head(pending)} :
              progress'[c] = progress[c]
        /\ crashes' = crashes
        /\ IF get_pending_chapters(progress') = <<>>
           THEN pc' = "idle"
           ELSE /\ pc' = "loop"
                /\ pending' = get_pending_chapters(progress') ]_vars

\* a chapter failed with a recorded message and a later chapter of the same
\* crash-free run was completed
C6_Witness ==
  /\ crashes = 0
  /\ \E c, d \in DOMAIN progress :
        /\ c < d
        /\ Status(c) = "failed" /\ progress[c].error_message \in Messages
        /\ Status(d) = "completed"

\* C7: no step changes the progress record of a failed chapter (status,
\* attempt_count), produces chunks for it or stores chunks for it; the
\* chapter a run picks up is a pending one.
C7_FailedNotRetried ==
  [][ /\ \A c \in DOMAIN progress :
           Status(c) = "failed" =>
             /\ progress'[c] = progress[c]
             /\ produced'[c] = produced[c]
             /\ {i \in DOMAIN store' : store'[i].chapter_id = c} = StoredOf(c)
      /\ event' = "pick" => Status(Head(pending)) = "pending" ]_vars

\* a resume run has returned without work while a chapter is failed
C7_Witness ==
  /\ event = "resume_done"
  /\ \E c \in DOMAIN progress : Status(c) = "failed"

\* the answers of the extraction oracle for the first window: a failure, or
\* one paragraph of 120 characters
OracleAnswers ==
  { <<>>,
    << [ok |-> FALSE, paragraphs |-> <<>>] >>,
    << [ok |-> TRUE,
        paragraphs |-> << [len |-> 120, concept |-> "LoRA",
                           section_title |-> NONE] >>] >> }

\* C8: a chapter whose text is shorter than 150 characters yields no chunk
\* under the rule-based and under the assisted strategy, and the driver never
\* fails it: once picked up it has zero chunks, nothing is stored for it and
\* the only step left is its completion.
C8_ShortChapter ==
  \A c \in DOMAIN chapters :
     TextLen(chapters[c]) < MIN_PARAGRAPH_LENGTH =>
       /\ split_chapter_into_paragraphs(chapters[c], c, 0) = <<>>
       /\ \A oracle \in OracleAnswers :
             hybrid_chunk_and_extract(chapters[c], c, oracle, 0) = <<>>
       /\ produced[c] \in {-1, 0}
       /\ StoredOf(c) = {}
       /\ c \in DOMAIN progress => Status(c) # "failed"
       /\ (pc = "chunks" /\ Head(pending) = c) => chunks = <<>>

\* an 80 character chapter and a 124 character chapter, both completed with
\* zero chunks from the real document
C8_Witness ==
  /\ ~docEmpty
  /\ \E c, d \in DOMAIN progress :
        /\ TextLen(chapters[c]) = 80 /\ Status(c) = "completed"
        /\ TextLen(chapters[d]) = 124 /\ Status(d) = "completed"
        /\ produced[c] = 0 /\ produced[d] = 0

C10_ChapterAtomic ==
  crashes = 0 =>
    \A c \in DOMAIN progress :
       /\ Cardinality(StoredOf(c)) \in {0, Max(produced[c], 0)}
       /\ Status(c) = "completed" => Cardinality(StoredOf(c)) = produced[c]
       /\ Status(c) = "failed" => StoredOf(c) = {}

\* C11: a run that ends with an input error (the document is missing or
\* unreadable), fresh or resume, has created no book, chapter, progress or
\* chunk record and has changed no progress record.
C11_InputErrorsFailFast ==
  [][ event' \in {"fresh_input_error", "resume_aborted"} =>
        /\ raised' = "FileNotFoundError"
        /\ bookExists' = bookExists
        /\ chapters' = chapters
        /\ progress' = progress
        /\ store' = store ]_vars

(* ---------------- hash_utils.py: hamming_distance on its own ----------- *)

\* fingerprints of the signed 64-bit range: 0, 1, small values, 2^63 - 1, the
\* negative values -1, -2^63 (bit 63 alone) and values with the top byte set
FingerprintSamples ==
  { Signed64(bits) : bits \in
      { {}, {0}, {0, 1, 2}, 0..5, 0..6, 0..62, BitPositions, {63},
        56..63, {1, 63}, 8..15 } }

\* a call hamming_distance(hash1, hash2)
HammingCall ==
  /\ \E hash1, hash2 \in FingerprintSamples :
        call' = [op |-> "hamming_distance", hash1 |-> hash1, hash2 |-> hash2,
                 result |-> hamming_distance(hash1, hash2)]
  /\ UNCHANGED << emptyPathOpens, db, run, crashes, event, raised >>

NextHamming ==
  HammingCall

SpecHamming ==
  Init /\ [][NextHamming]_vars

\* the bits in which the unsigned 64-bit representations of a and b differ
DifferingBits(a, b) ==
  {i \in BitPositions : (i \in a.low) # (i \in b.low)}

\* C18: hamming_distance is symmetric, is 0 on equal arguments, equals the
\* number of differing bits of the unsigned 64-bit representations of the
\* two signed values, and lies in 0..64.
C18_HammingDistance ==
  call.op = "hamming_distance" =>
    /\ call.result = hamming_distance(call.hash2, call.hash1)
    /\ call.hash1 = call.hash2 => call.result = 0
    /\ call.result = Cardinality(DifferingBits(call.hash1, call.hash2))
    /\ call.result \in 0..HASH_BITS

\* a negative and a non-negative fingerprint were compared, and one that
\* differs from -1 in every bit
C18_Witness ==
  /\ call.op = "hamming_distance"
  /\ call.hash1.ext = 1 /\ call.hash2.ext = 0
  /\ call.result = HASH_BITS

(* ------------- dedup_service.py: the duplicate check on a corpus ------- *)

MaxRows ==
  3

\* a paragraph of 300 characters made of sentence i of paragraph p, written
\* in the given case with the given number of surplus whitespace characters
DedupText(p, i, case, extra) ==
  [units |-> << <<p, i>> >>, len |-> 300 + extra, case |-> case,
   extra |-> extra]

\* the paragraphs the pipeline stores: one, two near variants of it (7 and
\* 8 bits away from each other's neighbours) and an unrelated one
StoredTexts ==
  { DedupText(1, 1, "original", 0), DedupText(1, 7, "original", 0),
    DedupText(1, 8, "original", 0), DedupText(2, 1, "original", 0) }

\* the candidates of the checks: the first stored paragraph, the same in
\* upper case with surplus blanks, and a variant between the stored ones
QueryTexts ==
  { DedupText(1, 1, "original", 0), DedupText(1, 1, "upper", 3),
    DedupText(1, 4, "original", 0) }

Books ==
  {1, 2}

\* the values of the argument book_id: None, 0 and the ids of the books
BookIdArgs ==
  { <<>>, <<0>>, <<1>>, <<2>> }

\* the service and its collaborators at a call: enable_semantic of
\* dedup_service.py:36, whether the backend has bit_count, the order it
\* leaves ties in, and whether the embedding oracle answers
Sessions ==
  { ss \in [enable_semantic : BOOLEAN, bit_count : BOOLEAN,
            ties : {"asc", "desc"}, oracle : {"ok", "fails"}] :
      /\ ~ss.bit_count => ss.ties = "asc"
      /\ ~ss.enable_semantic => ss.oracle = "ok" }

\* the pipeline hands a chunk of a book to save_to_database
PipelineStore ==
  /\ call = NoCall
  /\ Len(store) < MaxRows
  /\ \E book_id \in Books, text \in StoredTexts :
       store' = save_to_database(store,
                  [book_id |-> book_id, chapter_id |-> 1,
                   paragraph_index |-> Len(store),
                   chapter_paragraph_index |-> Len(store),
                   text |-> text])
  /\ UNCHANGED << call, emptyPathOpens, bookExists, chapters, progress, handed_max,
                  produced, run, crashes, event, raised >>

\* a run of scripts/backfill_hashes.py
BackfillHashes ==
  /\ call = NoCall
  /\ store' = backfill_hashes(store)
  /\ UNCHANGED << call, emptyPathOpens, bookExists, chapters, progress, handed_max,
                  produced, run, crashes, event, raised >>

\* a call check_duplicate(text, book_id, cross_book)
CheckDuplicate ==
  /\ call = NoCall
  /\ \E text \in QueryTexts, book_id \in BookIdArgs, cross_book \in BOOLEAN,
        session \in Sessions :
       call' = [op |-> "check_duplicate", text |-> text, book_id |-> book_id,
                cross_book |-> cross_book, session |-> session,
                result |-> check_duplicate(store, text, book_id, cross_book,
                                           session)]
  /\ UNCHANGED << emptyPathOpens, db, run, crashes, event, raised >>

\* a call compute_and_check(text, book_id)
ComputeAndCheck ==
  /\ call = NoCall
  /\ \E text \in QueryTexts, book_id \in BookIdArgs, session \in Sessions :
       call' = [op |-> "compute_and_check", text |-> text,
                book_id |-> book_id, session |-> session,
                result |-> compute_and_check(store, text, book_id, session)]
  /\ UNCHANGED << emptyPathOpens, db, run, crashes, event, raised >>

\* a call find_fuzzy_duplicates(simhash64, book_id, cross_book, limit)
FindFuzzyDuplicates ==
  /\ call = NoCall
  /\ \E text \in QueryTexts, book_id \in BookIdArgs, cross_book \in BOOLEAN,
        limit \in {1, FUZZY_LIMIT}, session \in Sessions :
       /\ ~session.enable_semantic
       /\ call' = With(compute_simhash64(text), LAMBDA simhash64 :
                    [op |-> "find_fuzzy_duplicates", simhash64 |-> simhash64,
                     book_id |-> book_id, cross_book |-> cross_book,
                     limit |-> limit, session |-> session,
                     result |-> find_fuzzy_duplicates(store, simhash64,
                                  book_id, cross_book, limit, session)])
  /\ UNCHANGED << emptyPathOpens, db, run, crashes, event, raised >>

\* the caller has taken the result of the call
Return ==
  /\ call # NoCall
  /\ call' = NoCall
  /\ UNCHANGED << emptyPathOpens, db, run, crashes, event, raised >>

InitDedup ==
  Init /\ ~emptyPathOpens

NextDedup ==
  \/ PipelineStore
  \/ BackfillHashes
  \/ CheckDuplicate
  \/ ComputeAndCheck
  \/ FindFuzzyDuplicates
  \/ Return

SpecDedup ==
  InitDedup /\ [][NextDedup]_vars

\* the distance of the stored fingerprint of row i from a fingerprint
StoredDistance(i, simhash64) ==
  hamming_distance(simhash64, Value(store[i].simhash64))

\* row i belongs to the scope a caller asks for: the whole corpus, or the
\* document book_id names
InScope(i, book_id, cross_book) ==
  cross_book \/ (book_id # <<>> /\ store[i].book_id = book_id[1])

\* the rows with a fingerprint within the scope asked for and within the
\* threshold of a fingerprint
NearInScope(simhash64, book_id, cross_book) ==
  { i \in 1..Len(store) :
      /\ store[i].simhash64 # NULL
      /\ InScope(i, book_id, cross_book)
      /\ StoredDistance(i, simhash64) <= FUZZY_THRESHOLD }

\* the tiers a sequence of lookups consulted, the fallback being a part of
\* the structural tier
Tiers(lookups) ==
  SelectSeq(lookups, LAMBDA l : l # "fallback")

\* C12: a duplicate check consults the tiers in the order exact, structural,
\* semantic, each only if every earlier one missed: an exact hit gives the
\* verdict exact with similarity 1.0 and consults nothing else, a structural
\* hit does not consult the semantic lookup, the semantic lookup is never
\* made when it is disabled, and "no duplicate" is returned only if every
\* enabled tier was consulted and missed.
C12_TierOrder ==
  call.op = "check_duplicate" =>
    LET r == call.result
        exact == find_exact_duplicate(store, compute_paragraph_hash(call.text),
                                      call.book_id, call.cross_book)
        fuzzy == find_fuzzy_duplicates(store, compute_simhash64(call.text),
                                       call.book_id, call.cross_book,
                                       FUZZY_LIMIT, call.session).matches
    IN /\ Tiers(r.lookups) \in { << "exact" >>, << "exact", "fuzzy" >>,
                                  << "exact", "fuzzy", "semantic" >> }
       /\ exact # 0 =>
            /\ r.lookups = << "exact" >>
            /\ ~r.raised
            /\ r.verdict.duplicate_type = "exact"
            /\ r.verdict.similarity_score = HASH_BITS
       /\ Len(Tiers(r.lookups)) >= 2 => exact = 0
       /\ Len(Tiers(r.lookups)) >= 3 => fuzzy = <<>>
       /\ (exact = 0 /\ fuzzy # <<>>) =>
            /\ Tiers(r.lookups) = << "exact", "fuzzy" >>
            /\ r.verdict.duplicate_type = "fuzzy"
       /\ ~call.session.enable_semantic => Len(Tiers(r.lookups)) <= 2
       /\ (~r.raised /\ ~r.verdict.is_duplicate) =>
            /\ exact = 0
            /\ fuzzy = <<>>
            /\ Len(Tiers(r.lookups)) =
                 IF call.session.enable_semantic THEN 3 ELSE 2

\* a structural hit found by the in-process fallback was returned with the
\* semantic tier enabled, and the semantic lookup was not made
C12_Witness ==
  /\ call.op = "check_duplicate"
  /\ call.session.enable_semantic
  /\ call.result.verdict.duplicate_type = "fuzzy"
  /\ call.result.lookups = << "exact", "fuzzy", "fallback" >>

\* C13: a check made for the current document only (cross_book = False)
\* reports a match only among the chunks of the document book_id names,
\* whatever book_id is passed.
C13_ScopeHonoured ==
  (call.op = "check_duplicate" /\ ~call.cross_book
     /\ call.result.verdict.is_duplicate) =>
    InScope(call.result.verdict.existing_chunk_id, call.book_id, FALSE)

\* C14: when the exact tier misses, the structural tier reports a duplicate
\* exactly if a stored fingerprint within scope is at distance 6 or less;
\* the match is a stored chunk at the least such distance d and the
\* similarity is 1 - d/64.
C14_StructuralTier ==
  (call.op = "check_duplicate"
     /\ find_exact_duplicate(store, compute_paragraph_hash(call.text),
                             call.book_id, call.cross_book) = 0) =>
    LET v == call.result.verdict
        simhash64 == compute_simhash64(call.text)
        near == NearInScope(simhash64, call.book_id, call.cross_book)
    IN /\ (v.duplicate_type = "fuzzy") <=> (near # {})
       /\ v.duplicate_type = "fuzzy" =>
            /\ v.existing_chunk_id \in near
            /\ \A j \in near : v.hamming_distance <= StoredDistance(j, simhash64)
            /\ v.hamming_distance =
                 StoredDistance(v.existing_chunk_id, simhash64)
            /\ v.similarity_score = HASH_BITS - v.hamming_distance

\* two texts are equal after case folding, whitespace collapse and trimming
EqualAfterNormalization(t1, t2) ==
  /\ t1.units = t2.units
  /\ t1.len - t1.extra = t2.len - t2.extra

C16_FallbackEquivalent ==
  (call.op = "find_fuzzy_duplicates" /\ ~call.session.bit_count) =>
    LET m == call.result.matches
        near == NearInScope(call.simhash64, call.book_id, call.cross_book)
        ids == { m[n][1] : n \in DOMAIN m }
    IN /\ call.result.route = << "fuzzy", "fallback" >>
       /\ \E ties \in {"asc", "desc"} :
            m = find_fuzzy_duplicates(store, call.simhash64, call.book_id,
                  call.cross_book, call.limit,
                  [call.session EXCEPT !.bit_count = TRUE, !.ties = ties]).matches
       /\ Len(m) = IF Cardinality(near) < call.limit THEN Cardinality(near)
                   ELSE call.limit
       /\ Cardinality(ids) = Len(m)
       /\ ids \subseteq near
       /\ \A n \in DOMAIN m : m[n][2] = StoredDistance(m[n][1], call.simhash64)
       /\ \A n \in DOMAIN m : n > 1 => m[n - 1][2] <= m[n][2]
       /\ \A j \in near \ ids : \A n \in DOMAIN m :
            m[n][2] <= StoredDistance(j, call.simhash64)

\* C17: check_duplicate returns a verdict and does not raise, also when the
\* embedding oracle fails with the semantic tier enabled.
C17_OracleFailureRecovered ==
  call.op = "check_duplicate" => ~call.result.raised

(* ---------------- src/pdf/chapter_detector.py: detect_chapters --------- *)

MaxPages ==
  3

MaxToc ==
  3

\* DetectedChapter as the detector builds it; a confidence is in percent
DetectedChapter(title, start_page, end_page, level, detection_method, confidence) ==
  [title |-> title, start_page |-> start_page, end_page |-> end_page,
   level |-> level, detection_method |-> detection_method,
   confidence |-> confidence]

\* chapter_detector.py:98-103, the first entry after i whose level is not
\* deeper than level, or 0 when there is none
RECURSIVE NextAtLevel(_, _, _)
NextAtLevel(toc, j, level) ==
  IF j > Len(toc) THEN 0
  ELSE IF toc[j].level <= level THEN j
       ELSE NextAtLevel(toc, j + 1, level)

\* chapter_detector.py:95-107, start_page and end_page of entry i
TocStartPage(toc, i) ==
  toc[i].page - 1

\* chapter_detector.py:96-107 with the level test of line 101 left out: the
\* range ends before the entry that follows, whatever its level
TocEndPageNextEntry(toc, i, total_pages) ==
  LET end_page == IF i = Len(toc) THEN total_pages - 1
                  ELSE toc[i + 1].page - 2
  IN Max(TocStartPage(toc, i), end_page)

TocEndPage(toc, i, total_pages) ==
  LET j == NextAtLevel(toc, i + 1, toc[i].level)
      end_page == IF j = 0 THEN total_pages - 1 ELSE toc[j].page - 2
  IN Max(TocStartPage(toc, i), end_page)

\* chapter_detector.py:83-119; a document is [total_pages, toc, patterns]:
\* toc is get_toc() as entries [level, page] with page counted from 1
detect_from_toc(doc) ==
  [i \in 1..Len(doc.toc) |->
     DetectedChapter("toc entry", TocStartPage(doc.toc, i),
                     TocEndPage(doc.toc, i, doc.total_pages),
                     doc.toc[i].level, "toc", 95)]

\* the pages of a set in ascending order
RECURSIVE PagesInOrder(_)
PagesInOrder(pages) ==
  IF pages = {} THEN <<>>
  ELSE LET first == CHOOSE x \in pages : \A y \in pages : x <= y
       IN << first >> \o PagesInOrder(pages \ {first})

\* chapter_detector.py:121-166; doc.patterns is the set of the pages
\* (counted from 0) that have a line matching a chapter pattern among their
\* first 15 lines; a page gives at most one node
detect_from_patterns(doc) ==
  LET starts == PagesInOrder(doc.patterns)
  IN [i \in 1..Len(starts) |->
        DetectedChapter("heading line", starts[i],
                        IF i + 1 <= Len(starts) THEN starts[i + 1] - 1
                        ELSE doc.total_pages - 1,
                        1, "pattern", 70)]

\* chapter_detector.py:168-182 with > in the place of >= at line 177
merge_detections_strict(toc_chapters, pattern_chapters) ==
  IF Len(toc_chapters) > Len(pattern_chapters) THEN toc_chapters
  ELSE pattern_chapters

\* chapter_detector.py:168-182
merge_detections(toc_chapters, pattern_chapters) ==
  IF Len(toc_chapters) >= Len(pattern_chapters) THEN toc_chapters
  ELSE pattern_chapters

\* chapter_detector.py:184-198
create_fallback_chapter(doc) ==
  << DetectedChapter("Full Book", 0, doc.total_pages - 1, 1, "fallback", 50) >>

\* chapter_detector.py:52-81
detect_chapters(doc) ==
  LET toc_chapters == detect_from_toc(doc)
      pattern_chapters == detect_from_patterns(doc)
  IN IF toc_chapters # <<>> /\ Len(toc_chapters) >= 3 THEN toc_chapters
     ELSE IF toc_chapters # <<>> /\ pattern_chapters # <<>>
     THEN merge_detections(toc_chapters, pattern_chapters)
     ELSE IF pattern_chapters # <<>> THEN pattern_chapters
     ELSE IF toc_chapters # <<>> THEN toc_chapters
     ELSE create_fallback_chapter(doc)

\* the tables of contents of a document of total_pages pages: up to MaxToc
\* entries of level 1 or 2 in page order, the first of level 1, every entry
\* pointing at a page of the document
Tocs(total_pages) ==
  { toc \in UNION { [1..n -> [level : {1, 2}, page : 1..total_pages]] :
                      n \in 0..MaxToc } :
      /\ Len(toc) > 0 => toc[1].level = 1
      /\ \A i \in 1..(Len(toc) - 1) : toc[i].page <= toc[i + 1].page }

\* the non-empty documents the detector is run on
Documents ==
  UNION { [total_pages : {n}, toc : Tocs(n), patterns : SUBSET (0..(n - 1))] :
            n \in 1..MaxPages }

\* a call ChapterDetector(pdf_path).detect_chapters()
DetectChapters ==
  /\ call = NoCall
  /\ \E doc \in Documents :
       call' = [op |-> "detect_chapters", doc |-> doc,
                result |-> detect_chapters(doc)]
  /\ UNCHANGED << emptyPathOpens, db, run, crashes, event, raised >>

NextDetect ==
  \/ DetectChapters
  \/ Return

SpecDetect ==
  InitDedup /\ [][NextDetect]_vars

\* the nodes of level 1 of a detection result
TopLevel(nodes) ==
  SelectSeq(nodes, LAMBDA c : c.level = 1)

\* C19: for a non-empty document the detector returns at least one node, and
\* the page ranges of the top-level nodes partition the document in order:
\* the first starts at page 0, each starts on the page after the end of the
\* one before it, the last ends on the last page, and no node ends before it
\* starts.
C19_PartitionsDocument ==
  call.op = "detect_chapters" =>
    LET top == TopLevel(call.result)
    IN /\ Len(call.result) >= 1
       /\ Len(top) >= 1
       /\ top[1].start_page = 0
       /\ \A i \in 1..(Len(top) - 1) :
            top[i + 1].start_page = top[i].end_page + 1
       /\ top[Len(top)].end_page = call.doc.total_pages - 1
       /\ \A i \in DOMAIN call.result :
            call.result[i].end_page >= call.result[i].start_page

IsTwoChapterDocument(doc) ==
  /\ doc.total_pages = 3
  /\ doc.toc = << [level |-> 1, page |-> 1], [level |-> 1, page |-> 2] >>

\* the page ranges of the top-level nodes of a result
TopRanges(nodes) ==
  [i \in 1..Len(TopLevel(nodes)) |->
     << TopLevel(nodes)[i].start_page, TopLevel(nodes)[i].end_page >>]

\* the entries after entry i at the same or a shallower level
LaterAtLevel(toc, i) ==
  { j \in (i + 1)..Len(toc) : toc[j].level <= toc[i].level }

\* the page (counted from 0) before the first entry of LaterAtLevel
PageBeforeNext(toc, i) ==
  toc[CHOOSE j \in LaterAtLevel(toc, i) :
        \A n \in LaterAtLevel(toc, i) : j <= n].page - 2

\* C21: the three-page document with Chapter 1 on page 1 and Chapter 2 on
\* page 2 yields the two top-level nodes [0,0] and [1,2] unless all three
\* pages carry a chapter heading line; the end_page of a TOC node is the page
\* before the next entry at the same or a shallower level, but not before the
\* node's own start page, or the last page when there is no such entry.
C21_TocRanges ==
  call.op = "detect_chapters" =>
    /\ (IsTwoChapterDocument(call.doc) /\ Cardinality(call.doc.patterns) <= 2)
         => TopRanges(call.result) = << <<0, 0>>, <<1, 2>> >>
    /\ LET toc == call.doc.toc
           nodes == detect_from_toc(call.doc)
       IN \A i \in DOMAIN nodes :
            /\ nodes[i].start_page = toc[i].page - 1
            /\ nodes[i].end_page =
                 IF LaterAtLevel(toc, i) = {} THEN call.doc.total_pages - 1
                 ELSE Max(nodes[i].start_page, PageBeforeNext(toc, i))

\* the two-chapter document with heading lines on two pages gave the two
\* nodes, and its table of contents is what was returned
C21_Witness ==
  /\ call.op = "detect_chapters"
  /\ IsTwoChapterDocument(call.doc)
  /\ Cardinality(call.doc.patterns) = 2
  /\ TopRanges(call.result) = << <<0, 0>>, <<1, 2>> >>
  /\ call.result[1].detection_method = "toc"

\* C21 as stated: the two nodes [0,0] and [1,2] whatever the pages contain,
\* and every end_page the page before the next entry at the same or a
\* shallower level, or the last page.
C21_AsStated ==
  call.op = "detect_chapters" =>
    /\ IsTwoChapterDocument(call.doc)
         => TopRanges(call.result) = << <<0, 0>>, <<1, 2>> >>
    /\ LET toc == call.doc.toc
           nodes == detect_from_toc(call.doc)
       IN \A i \in DOMAIN nodes :
            nodes[i].end_page =
              IF LaterAtLevel(toc, i) = {} THEN call.doc.total_pages - 1
              ELSE PageBeforeNext(toc, i)

(* --------- src/pdf/chunker.py: the rule-based chunker on its own ------- *)

MaxBlocks ==
  3

\* the paragraphs a chapter is made of: a short one, one within the bounds,
\* one of a single over-long sentence, one whose first five sentences are
\* short, one whose five sentences pass the maximum together, one that ends
\* in a short sentence, and a dotted-numeric heading line
BlockShapes ==
  { P(<<80>>), P(<<200>>), P(<<1500>>), P(<<20, 20, 20, 20, 20, 950>>),
    P(<<240, 240, 240, 240, 300>>), P(<<600, 500, 60>>), Heading(12) }

\* the chapter texts of one to MaxBlocks paragraphs
ChapterTexts ==
  { [pad |-> 0, blocks |-> bs] :
      bs \in UNION { [1..n -> BlockShapes] : n \in 1..MaxBlocks } }

\* a call split_chapter_into_paragraphs(chapter_text, chapter_id)
SplitChapter ==
  /\ call = NoCall
  /\ \E t \in ChapterTexts :
       call' = [op |-> "split_chapter_into_paragraphs", text |-> t,
                sections |-> detect_sections(t.blocks),
                result |-> split_chapter_into_paragraphs(t, 1, 0)]
  /\ UNCHANGED << emptyPathOpens, db, run, crashes, event, raised >>

NextChunk ==
  \/ SplitChapter
  \/ Return

SpecChunk ==
  InitDedup /\ [][NextChunk]_vars

\* C22: every chunk the rule-based chunker returns has a length within
\* [150, 1000], except that the last chunk of the chapter may be shorter
\* than 150.
C22_ChunkLengthBounds ==
  call.op = "split_chapter_into_paragraphs" =>
    \A i \in DOMAIN call.result :
      /\ call.result[i].len <= MAX_PARAGRAPH_LENGTH
      /\ i < Len(call.result) => call.result[i].len >= MIN_PARAGRAPH_LENGTH

\* the (paragraph, sentence) units of the paragraphs of a chapter text that
\* are not page-number or "Page n" stubs
TextUnits(t) ==
  UNION { { <<p, i>> : i \in DOMAIN t.blocks[p].s } :
            p \in { q \in DOMAIN t.blocks : t.blocks[q].kind # "stub" } }

\* the units the chunks of a result are made of
ChunkUnits(cs) ==
  UNION { { cs[i].text.units[j] : j \in DOMAIN cs[i].text.units } :
            i \in DOMAIN cs }

\* C23: for a chapter longer than the minimum chunk length the chunks
\* contain all of the chapter's text: no paragraph, sentence group or
\* trailing fragment is missing from them other than what the header/footer
\* filter rejects.
C23_NoTextDropped ==
  (call.op = "split_chapter_into_paragraphs"
     /\ StripLen(call.text.blocks) >= MIN_PARAGRAPH_LENGTH) =>
    TextUnits(call.text) \subseteq ChunkUnits(call.result)

\* C24: the section markers cover the chapter contiguously: the first
\* starts at the start of the chapter, each ends where the next starts, the
\* last ends at the end of the chapter, and text before the first heading
\* forms a leading marker without a title.
C24_SectionsCoverChapter ==
  call.op = "split_chapter_into_paragraphs" =>
    LET ss == call.sections
        bs == call.text.blocks
    IN /\ Len(ss) >= 1
       /\ ss[1].from = 1
       /\ \A n \in 1..(Len(ss) - 1) : ss[n + 1].from = ss[n].to + 1
       /\ ss[Len(ss)].to = Len(bs)
       /\ bs[1].kind # "heading" => ss[1].title = 0
       /\ \A n \in DOMAIN ss :
            ss[n].title # 0 => bs[ss[n].from].kind = "heading"

(* ------ src/pdf/semantic_chunker.py: the assisted strategy on its own --- *)

\* the paragraphs of a chapter handed to the assisted strategy
HybridShapes ==
  { P(<<300>>), P(<<500>>), P(<<2000>>) }

HybridTexts ==
  { [pad |-> 0, blocks |-> bs] :
      bs \in UNION { [1..n -> HybridShapes] : n \in 1..MaxBlocks } }

\* one paragraph of an oracle answer
SemanticParagraph(len, concept, section_title) ==
  [len |-> len, concept |-> concept, section_title |-> section_title]

\* what llm_split_and_extract can do on a window: raise, or return one
\* untitled paragraph, a titled paragraph followed by an untitled one, a
\* short titled paragraph (a heading on its own) followed by its body, a
\* paragraph whose title is a spelling of the token null, or a paragraph of
\* another section
WindowAnswers ==
  { [ok |-> FALSE, paragraphs |-> <<>>],
    [ok |-> TRUE, paragraphs |-> << SemanticParagraph(300, "c1", NONE) >>],
    [ok |-> TRUE, paragraphs |-> << SemanticParagraph(300, "c2", "A"),
                                    SemanticParagraph(200, "c3", NONE) >>],
    [ok |-> TRUE, paragraphs |-> << SemanticParagraph(60, "c4", "B"),
                                    SemanticParagraph(400, "c5", NONE) >>],
    [ok |-> TRUE, paragraphs |-> << SemanticParagraph(300, "c6", "Null") >>],
    [ok |-> TRUE, paragraphs |-> << SemanticParagraph(300, "c7", "C") >>] }

\* base_paragraph_index of the call
BaseIndices ==
  {0, 5}

\* a call hybrid_chunk_and_extract(chapter_text, chapter_id,
\* base_paragraph_index=base); the oracle answers each window on its own
HybridChunk ==
  /\ call = NoCall
  /\ \E t \in HybridTexts, base \in BaseIndices :
       LET windows == split_into_big_chunks(t.blocks, BIG_CHUNK_MAX_SIZE)
       IN \E oracle \in [1..Len(windows) -> WindowAnswers] :
            call' = [op |-> "hybrid_chunk_and_extract", text |-> t,
                     base |-> base, windows |-> windows, oracle |-> oracle,
                     result |-> hybrid_chunk_and_extract(t, 1, oracle, base)]
  /\ UNCHANGED << emptyPathOpens, db, run, crashes, event, raised >>

NextHybrid ==
  \/ HybridChunk
  \/ Return

SpecHybrid ==
  InitDedup /\ [][NextHybrid]_vars

\* everything the oracle returned for the windows of a call, in order, a
\* failed window standing as one paragraph
ReturnedParagraphs ==
  AllSemanticParagraphs(call.text.blocks, call.windows, call.oracle, 1)

\* the positions in ps of the paragraphs that are emitted as chunks
RECURSIVE EmittedPositions(_, _)
EmittedPositions(ps, i) ==
  IF i > Len(ps) THEN <<>>
  ELSE IF ps[i].len >= SMALL_CHUNK_MIN_SIZE
       THEN <<i>> \o EmittedPositions(ps, i + 1)
       ELSE EmittedPositions(ps, i + 1)

\* the positions up to n of the paragraphs whose title is neither null nor
\* a spelling of the token null
TitledUpTo(ps, n) ==
  { j \in 1..n : /\ ps[j].section_title # NONE
                 /\ Lower(ps[j].section_title) # "null" }

\* the most recent such title at or before position n, None if there is none
LastTitle(ps, n) ==
  IF TitledUpTo(ps, n) = {} THEN NONE
  ELSE ps[CHOOSE j \in TitledUpTo(ps, n) :
            \A m \in TitledUpTo(ps, n) : m <= j].section_title

\* C25: each emitted chunk's section title is the most recent title the
\* oracle returned at or before that chunk in the chapter's paragraph
\* sequence that is neither null nor the token null in any case, and null
\* if no such title has been returned yet in the chapter.
C25_SectionTitleCarriesForward ==
  call.op = "hybrid_chunk_and_extract" =>
    LET ps == ReturnedParagraphs
        pos == EmittedPositions(ps, 1)
    IN /\ Len(call.result) = Len(pos)
       /\ \A i \in DOMAIN call.result :
            call.result[i].section_title = LastTitle(ps, pos[i])

\* the paragraphs of a chapter that are not empty
NonEmptyParagraphs(bs) ==
  { i \in DOMAIN bs : PLen(bs[i]) > 0 }

\* the paragraphs of a window sequence, in window order
RECURSIVE Flatten(_)
Flatten(ws) ==
  IF ws = <<>> THEN <<>> ELSE Head(ws) \o Flatten(Tail(ws))

\* C26: split_into_big_chunks puts every non-empty paragraph of the chapter
\* in exactly one window, in document order, and every window has a length
\* within [500, 2500].
C26_WindowsKeepContent ==
  call.op = "hybrid_chunk_and_extract" =>
    LET bs == call.text.blocks
        placed == Flatten(call.windows)
    IN /\ \A n \in 1..(Len(placed) - 1) : placed[n] < placed[n + 1]
       /\ { placed[n] : n \in DOMAIN placed } = NonEmptyParagraphs(bs)
       /\ \A w \in DOMAIN call.windows :
            /\ WindowLen(bs, call.windows[w]) >= BIG_CHUNK_MIN_SIZE
            /\ WindowLen(bs, call.windows[w]) <= BIG_CHUNK_MAX_SIZE

\* the chunks of a result that come from window w
ChunksOfWindow(result, w) ==
  { i \in DOMAIN result : result[i].window = w }

\* C27: a window on which the oracle fails gives exactly one chunk, the
\* whole window with an empty concept; the windows after it are still
\* submitted, each giving the paragraphs of its answer that are long
\* enough; and the i-th emitted chunk has global index base + i and chapter
\* index i, counting from 0.
C27_OracleFailureIsLocal ==
  call.op = "hybrid_chunk_and_extract" =>
    LET bs == call.text.blocks
        r == call.result
    IN /\ \A w \in DOMAIN call.windows :
            IF call.oracle[w].ok
            THEN Cardinality(ChunksOfWindow(r, w)) =
                   Len(EmittedPositions(call.oracle[w].paragraphs, 1))
            ELSE /\ Cardinality(ChunksOfWindow(r, w)) = 1
                 /\ \A i \in ChunksOfWindow(r, w) :
                      /\ r[i].len = WindowLen(bs, call.windows[w])
                      /\ r[i].concept = ""
       /\ \A i \in DOMAIN r :
            /\ r[i].paragraph_index = call.base + i - 1
            /\ r[i].chapter_paragraph_index = i - 1
            /\ i < Len(r) => r[i].window <= r[i + 1].window

\* a call with a non-zero base in which the oracle failed on a window and
\* answered a later one, whose paragraphs were emitted after the fallback
\* chunk
C27_Witness ==
  /\ call.op = "hybrid_chunk_and_extract"
  /\ call.base > 0
  /\ \E w \in DOMAIN call.windows :
       /\ ~call.oracle[w].ok
       /\ \E v \in DOMAIN call.windows :
            /\ v > w
            /\ call.oracle[v].ok
            /\ ChunksOfWindow(call.result, v) # {}

(* ------------- src/pdf/text_normalizer.py: table removal --------------- *)

MaxLines ==
  5

\* a line of the text: whether table_row_pattern matches it, the length of
\* the stripped line and the number of its digits and dots
Line(pattern, len, digits) ==
  [pattern |-> pattern, len |-> len, digits |-> digits]

\* a sentence, a "UCF101 64.5 63.1" row, a row of figures that only the
\* digit ratio recognises, figures too short for the ratio test, a line
\* whose digits are exactly 30% of it, and an empty line
LineShapes ==
  { Line(FALSE, 40, 2), Line(TRUE, 16, 7), Line(FALSE, 20, 12),
    Line(FALSE, 8, 6), Line(FALSE, 10, 3), Line(FALSE, 0, 0) }

\* text.split('\n') of the texts of one to MaxLines lines
LineTexts ==
  UNION { [1..n -> LineShapes] : n \in 1..MaxLines }

\* text_normalizer.py:121-132
is_table_row(line) ==
  \/ line.pattern
  \/ /\ 10 <= line.len
     /\ line.len <= 100
     /\ line.digits * 10 > 3 * line.len

\* text_normalizer.py:120-143; the lines are held by their numbers
RECURSIVE TableScan(_, _, _, _)
TableScan(lines, i, table_buffer, result_lines) ==
  IF i > Len(lines)
  THEN [table_buffer |-> table_buffer, result_lines |-> result_lines]
  ELSE IF is_table_row(lines[i])
       THEN TableScan(lines, i + 1, Append(table_buffer, i), result_lines)
       ELSE TableScan(lines, i + 1, <<>>,
              Append(IF Len(table_buffer) < 3
                     THEN result_lines \o table_buffer
                     ELSE result_lines, i))

\* the loop without the handling of the last buffer
remove_table_data_without_last_buffer(lines) ==
  TableScan(lines, 1, <<>>, <<>>).result_lines

\* text_normalizer.py:110-149
remove_table_data(lines) ==
  LET scanned == TableScan(lines, 1, <<>>, <<>>)
  IN IF Len(scanned.table_buffer) < 3
     THEN scanned.result_lines \o scanned.table_buffer
     ELSE scanned.result_lines

\* a call _remove_table_data(text)
RemoveTableData ==
  /\ call = NoCall
  /\ \E lines \in LineTexts :
       call' = [op |-> "_remove_table_data", lines |-> lines,
                result |-> remove_table_data(lines)]
  /\ UNCHANGED << emptyPathOpens, db, run, crashes, event, raised >>

NextTable ==
  \/ RemoveTableData
  \/ Return

SpecTable ==
  InitDedup /\ [][NextTable]_vars

\* the lines of the maximal run of table rows that line i is in
TableRun(lines, i) ==
  { j \in DOMAIN lines :
      \A m \in DOMAIN lines :
        ((i <= m /\ m <= j) \/ (j <= m /\ m <= i)) => is_table_row(lines[m]) }

\* C28: the output of _remove_table_data is the input without the maximal
\* runs of three or more consecutive table rows: every other line, a row in
\* a run of one or two included, is kept once, in the original order, also
\* when the run is at the end of the text.
C28_TableRunsRemoved ==
  call.op = "_remove_table_data" =>
    LET lines == call.lines
        kept == call.result
    IN /\ \A n \in 1..(Len(kept) - 1) : kept[n] < kept[n + 1]
       /\ { kept[n] : n \in DOMAIN kept } =
            { i \in DOMAIN lines :
                \/ ~is_table_row(lines[i])
                \/ Cardinality(TableRun(lines, i)) < 3 }

\* a text of three table rows, a sentence and one more table row: the run of
\* three is removed, the sentence and the single row at the end are kept
C28_Witness ==
  /\ call.op = "_remove_table_data"
  /\ Len(call.lines) = 5
  /\ \A i \in 1..5 : is_table_row(call.lines[i]) <=> i # 4
  /\ call.result = <<4, 5>>

(* ------- scripts/backfill_hashes.py: the batch loop, step by step ------- *)

MaxBatches ==
  4

\* --batch-size
BatchSizes ==
  {1, 2}

\* the ids of the chunks whose hashing raises: none, or the first chunk
RaisingChunks ==
  { {}, {1} }

\* backfill_hashes.py:42-52; the rows the query selects, by id
BackfillQuery(rows, book_id, force) ==
  { i \in DOMAIN rows :
      /\ Truthy(book_id) => rows[i].book_id = book_id[1]
      /\ ~force => (rows[i].paragraph_hash = NULL \/ rows[i].simhash64 = NULL) }

\* .order_by(ParagraphChunk.id).limit(n).all()
RECURSIVE FirstById(_, _)
FirstById(ids, n) ==
  IF n = 0 \/ ids = {} THEN <<>>
  ELSE LET first == CHOOSE i \in ids : \A j \in ids : i <= j
       IN <<first>> \o FirstById(ids \ {first}, n - 1)

\* backfill_hashes.py:72-85; a chunk whose hashing raises keeps its columns
HashBatch(rows, batch, raising) ==
  [i \in DOMAIN rows |->
     IF (\E n \in DOMAIN batch : batch[n] = i) /\ i \notin raising
     THEN [rows[i] EXCEPT
             !.paragraph_hash = compute_paragraph_hash(rows[i].body_text),
             !.simhash64 = {compute_simhash64(rows[i].body_text)}]
     ELSE rows[i]]

\* backfill_hashes.py:26-59; the script starts, counts the selected rows and
\* returns at once when there is none
StartBackfill ==
  /\ call = NoCall
  /\ \E book_id \in BookIdArgs, force \in BOOLEAN, batch_size \in BatchSizes,
        raising \in RaisingChunks :
       LET total == Cardinality(BackfillQuery(store, book_id, force))
       IN call' = [op |-> "backfill_hashes", book_id |-> book_id,
                   force |-> force, batch_size |-> batch_size,
                   raising |-> raising, total |-> total,
                   at |-> IF total = 0 THEN "done" ELSE "loop",
                   fetched |-> 0,
                   processed |-> [i \in DOMAIN store |-> 0]]
  /\ UNCHANGED << emptyPathOpens, db, run, crashes, event, raised >>

\* backfill_hashes.py:65-87; one turn of the while loop: fetch the first
\* batch of the query, leave the loop when it is empty, else hash its chunks
\* and commit
BackfillBatch ==
  /\ call.op = "backfill_hashes"
  /\ call.at = "loop"
  /\ call.fetched < MaxBatches
  /\ LET batch == FirstById(BackfillQuery(store, call.book_id, call.force),
                            call.batch_size)
     IN /\ call' = [call EXCEPT
                      !.at = IF batch = <<>> THEN "done" ELSE "loop",
                      !.fetched = @ + 1,
                      !.processed = [i \in DOMAIN @ |->
                         IF \E n \in DOMAIN batch : batch[n] = i
                         THEN @[i] + 1 ELSE @[i]]]
        /\ store' = HashBatch(store, batch, call.raising)
  /\ UNCHANGED << emptyPathOpens, bookExists, chapters, progress, handed_max,
                  produced, run, crashes, event, raised >>

NextBackfill ==
  \/ PipelineStore
  \/ StartBackfill
  \/ BackfillBatch

SpecBackfill ==
  InitDedup /\ [][NextBackfill]_vars

\* C29: backfill_hashes terminates for every chunk table and every
\* combination of options: no selected chunk is processed more than once,
\* and the loop has fetched its empty batch after at most one batch per
\* selected chunk.
C29_BackfillTerminates ==
  call.op = "backfill_hashes" =>
    /\ \A i \in DOMAIN call.processed : call.processed[i] <= 1
    /\ call.fetched > call.total => call.at = "done"

(* ---- src/orchestrator/batch.py: the chapters a new book is given ------- *)

\* operations.py:177-212; one chapters row per detected node, of every
\* level, numbered in the order of detection
create_chapters_from_detected(detected_chapters) ==
  [i \in 1..Len(detected_chapters) |->
     [chapter_number |-> i,
      start_page |-> detected_chapters[i].start_page,
      end_page |-> detected_chapters[i].end_page,
      level |-> detected_chapters[i].level,
      detection_method |-> detected_chapters[i].detection_method]]

\* batch.py:188-205; the pages whose text _get_chapter_text returns for a
\* chapter: from the start of start_page, or of the document when the loop
\* does not meet it, to the end of end_page, or of the document
get_chapter_pages(total_pages, chapter) ==
  LET last == IF chapter.end_page \in 0..(total_pages - 1)
              THEN chapter.end_page ELSE total_pages - 1
      first == IF chapter.start_page \in 0..last
               THEN chapter.start_page ELSE 0
  IN first..last

\* batch.py:130-173; a new book: detect the chapters, store them, and give
\* each of them a pending progress row
CreateBookWithChapters ==
  /\ call = NoCall
  /\ \E doc \in Documents :
       LET registered == create_chapters_from_detected(detect_chapters(doc))
       IN call' = [op |-> "_create_book_with_chapters", doc |-> doc,
                   chapters |-> registered,
                   progress |-> initialize_chapter_progress(Len(registered))]
  /\ UNCHANGED << emptyPathOpens, db, run, crashes, event, raised >>

NextRegister ==
  \/ CreateBookWithChapters
  \/ Return

SpecRegister ==
  InitDedup /\ [][NextRegister]_vars

\* C30: the page ranges of the chapters the driver registers and processes
\* for a book are pairwise disjoint, nested table-of-contents entries
\* included: every page of the document is in the text of at most one
\* chapter that has a progress row.
C30_ChapterPagesDisjoint ==
  call.op = "_create_book_with_chapters" =>
    \A c, d \in DOMAIN call.progress :
      c # d =>
        get_chapter_pages(call.doc.total_pages, call.chapters[c])
          \cap get_chapter_pages(call.doc.total_pages, call.chapters[d]) = {}

=============================================================================
